---------------------------- MODULE Spec2Model ----------------------------
(***************************************************************************)
(* Model of src/main.py: the aiogram router of the shop bot, its catalog   *)
(* loading, the caption renderer and the per-product send with its plain   *)
(* text fallback.                                                          *)
(*                                                                         *)
(* Text is a sequence of tokens.  Every character the code treats          *)
(* specially (the MarkdownV2 reserved characters, the backslash, the       *)
(* tilde, digits) is a token of its own; a run of Arabic text or an emoji  *)
(* that holds none of those characters is one opaque token with an ASCII   *)
(* name.  Button labels are opaque tokens too: distinct labels of the      *)
(* source are distinct tokens here.                                        *)
(***************************************************************************)
EXTENDS Integers, Sequences, FiniteSets, TLC

---------------------------------------------------------------------------
(* Bounds of the model *)

\* longest catalog (list of records) drawn in Init
MaxCatalogLen == 4

\* longest title drawn from the title alphabet in CaptionInit
MaxTitleLen == 2

\* number of events handled at the same time in ConcInit
NumTasks == 2

---------------------------------------------------------------------------
(* Labels and maps: main.py lines 57-69 and the filter literals *)

\* "/start", matched by CommandStart()
CmdStart == "/start"
\* "rocket Amazon" label, the literal of the filter at line 128
AmazonLabel == "L:amazon"
\* "back to platforms" label, the literal at lines 144, 156, 186, 212, 306
BackLabel == "L:back"
\* "show more" label, the literal at lines 212 and 219
ShowMoreLabel == "L:show_more"
\* OtherPlatformLabels with a seeded fault: the list misses a label of PLATFORM_MAP
OtherPlatformLabels_express_only == <<"L:express">>

\* the literal list of the filter at line 291
OtherPlatformLabels == <<"L:express", "L:trendyol">>

\* dict, in insertion order: key -> label
PLATFORM_MAP ==
    << [key |-> "express",  label |-> "L:express"],
       [key |-> "trendyol", label |-> "L:trendyol"],
       [key |-> "amazon",   label |-> "L:amazon"] >>

\* dict, in insertion order: JSON category key -> button label
CATEGORY_MAP ==
    << [key |-> "groceries",       label |-> "L:groceries"],
       [key |-> "beauty",          label |-> "L:beauty"],
       [key |-> "mobiles",         label |-> "L:mobiles"],
       [key |-> "home_appliances", label |-> "L:home_appliances"] >>

\* dict.values(), in order
Values(map) == [i \in 1..Len(map) |-> map[i].label]

Range(s) == {s[i] : i \in 1..Len(s)}

---------------------------------------------------------------------------
(* JSON values, as json.load returns them *)

\* a key the dict does not have
Missing == [t |-> "missing", n |-> 0, s |-> <<>>]
\* a JSON string, as its tokens
Str(s) == [t |-> "str", n |-> 0, s |-> s]
\* a JSON integer
Num(n) == [t |-> "num", n |-> n, s |-> <<>>]

---------------------------------------------------------------------------
(* str() of an integer, as an f-string formats it *)

Digit(d) ==
    CASE d = 0 -> "0" [] d = 1 -> "1" [] d = 2 -> "2" [] d = 3 -> "3"
      [] d = 4 -> "4" [] d = 5 -> "5" [] d = 6 -> "6" [] d = 7 -> "7"
      [] d = 8 -> "8" [] d = 9 -> "9"

RECURSIVE NatStr(_)
NatStr(n) == IF n < 10 THEN <<Digit(n)>> ELSE NatStr(n \div 10) \o <<Digit(n % 10)>>

IntStr(n) == IF n < 0 THEN <<"-">> \o NatStr(-n) ELSE NatStr(n)

\* f"{v}" of a value that is a number or a string
Format(v) == IF v.t = "num" THEN IntStr(v.n) ELSE v.s

---------------------------------------------------------------------------
(* str.replace: every non-overlapping occurrence, scanned left to right *)

IsPrefixAt(s, i, pat) ==
    /\ i + Len(pat) - 1 <= Len(s)
    /\ \A k \in 1..Len(pat) : s[i + k - 1] = pat[k]

RECURSIVE ReplaceFrom(_, _, _, _)
ReplaceFrom(s, i, pat, rep) ==
    IF i > Len(s) THEN <<>>
    ELSE IF IsPrefixAt(s, i, pat)
         THEN rep \o ReplaceFrom(s, i + Len(pat), pat, rep)
         ELSE <<s[i]>> \o ReplaceFrom(s, i + 1, pat, rep)

Replace(s, pat, rep) == ReplaceFrom(s, 1, pat, rep)

---------------------------------------------------------------------------
(* escape_markdown_v2, lines 93-98 *)

\* reserved_chars with a seeded fault: the dot is left out of the string
reserved_chars_without_dot ==
    << "_", "*", "[", "]", "(", ")", "~", "BACKTICK", ">", "#",
       "+", "-", "=", "|", "{", "}", "!", "/" >>

\* the 19 characters of the raw string at line 95; BACKTICK stands for the backquote
reserved_chars ==
    << "_", "*", "[", "]", "(", ")", "~", "BACKTICK", ">", "#",
       "+", "-", "=", "|", "{", "}", ".", "!", "/" >>

\* the loop of lines 96-97, from the i-th reserved character on
RECURSIVE EscapeLoop(_, _)
EscapeLoop(text, i) ==
    IF i > Len(reserved_chars) THEN text
    ELSE EscapeLoop(Replace(text, <<reserved_chars[i]>>, <<"\\", reserved_chars[i]>>), i + 1)

escape_markdown_v2(text) == EscapeLoop(text, 1)

---------------------------------------------------------------------------
(* _build_caption, lines 256-279.  The result is [exc, caption]: exc is    *)
(* the exception the body raises for this record, "none" when it returns.  *)

\* OldPriceOf with a seeded fault: a missing old_price defaults to 1
OldPriceOf_default_one(product) ==
    IF product.old_price.t = "missing" THEN Num(1) ELSE product.old_price

\* product.get("old_price", 0)
OldPriceOf(product) == IF product.old_price.t = "missing" THEN Num(0) ELSE product.old_price

CaptionExc(product) ==
    LET old == OldPriceOf(product) IN
    IF product.title.t = "missing" THEN "KeyError"                 \* line 258
    ELSE IF product.new_price.t = "missing" THEN "KeyError"        \* line 260
    ELSE IF old.t # "num" THEN "TypeError"                         \* line 261, str > 0
    ELSE IF old.n > 0 /\ product.new_price.t # "num" THEN "TypeError"  \* int - str
    ELSE IF product.title.t # "str" THEN "AttributeError"          \* line 97, int.replace
    ELSE "none"

CaptionText(product, idx) ==
    LET old == OldPriceOf(product).n
        new_price == product.new_price
        savings == IF old > 0 THEN old - new_price.n ELSE 0
        escaped_title == escape_markdown_v2(product.title.s)
        escaped_old_price == escape_markdown_v2(IntStr(old) \o <<" ", "RIYAL">>)
        escaped_new_price == escape_markdown_v2(Format(new_price) \o <<" ", "RIYAL">>)
        escaped_savings == escape_markdown_v2(IntStr(savings) \o <<" ", "RIYAL">>)
        head == <<"*", "PRODUCT_WORD", " ">> \o IntStr(idx) \o <<":", " ">>
                \o escaped_title \o <<"*", "\n", "\n">>
    IN  IF old > 0
        THEN head
             \o <<"PRICE_ICON", " ", "*", "PRICE_WORD", ":", "*", "\n", "~", "~">>
             \o escaped_old_price
             \o <<"~", "~", " ", "ARROW", " ", "*">> \o escaped_new_price \o <<"*", "\n">>
             \o <<"SAVINGS_ICON", " ", "*", "SAVED_WORD", ":", " ">>
             \o escaped_savings \o <<"*", " ", "PARTY">>
        ELSE head
             \o <<"PRICE_ICON", " ", "*", "PRICE_WORD", ":", " ">>
             \o escaped_new_price \o <<"*">>

_build_caption(product, idx) ==
    IF CaptionExc(product) # "none"
    THEN [exc |-> CaptionExc(product), caption |-> <<>>]
    ELSE [exc |-> "none", caption |-> CaptionText(product, idx)]

\* line 253: the three replace calls, applied left to right
plain_caption(caption) ==
    Replace(Replace(Replace(caption, <<"\\", "*">>, <<"*">>), <<"~", "~">>, <<>>),
            <<"ARROW">>, <<"-", ">">>)

---------------------------------------------------------------------------
(* The outbound surface: message.answer / message.answer_photo calls *)

NoMarkup == [type |-> "none", rows |-> <<>>, url |-> <<>>]
ReplyKeyboardMarkup(rows) == [type |-> "reply", rows |-> rows, url |-> <<>>]
ReplyKeyboardRemove == [type |-> "remove", rows |-> <<>>, url |-> <<>>]

\* ReplyKeyboardBuilder.adjust(n): n buttons per row
Adjust(buttons, n) ==
    [r \in 1..((Len(buttons) + n - 1) \div n) |->
        SubSeq(buttons, (r - 1) * n + 1,
               IF r * n < Len(buttons) THEN r * n ELSE Len(buttons))]

\* one answer call; photo is <<>> for message.answer
Answer(text, markup, parse_mode, photo) ==
    [text |-> text, markup |-> markup, parse_mode |-> parse_mode, photo |-> photo]

\* lines 71-79
get_greeting(hour) ==
    IF 5 <= hour /\ hour < 12 THEN "GOOD_MORNING_SUNRISE"
    ELSE IF 12 <= hour /\ hour < 18 THEN "GOOD_EVENING_SUN"
    ELSE "GOOD_EVENING_MOON"

\* start_message with a seeded fault: builder.adjust(2), two buttons per row
start_message_two_per_row(hour) ==
    Answer(<<get_greeting(hour), "\n", "\n", "WELCOME_BODY">>,
           ReplyKeyboardMarkup(Adjust(Values(PLATFORM_MAP), 2)), "Markdown", <<>>)

\* start_handler, lines 102-126: the one message it sends
start_message(hour) ==
    Answer(<<get_greeting(hour), "\n", "\n", "WELCOME_BODY">>,
           ReplyKeyboardMarkup(Adjust(Values(PLATFORM_MAP), 1)), "Markdown", <<>>)

\* amazon_handler, lines 129-154
amazon_message ==
    Answer(<<"AMAZON_WELCOME">>,
           ReplyKeyboardMarkup(Adjust(Values(CATEGORY_MAP) \o <<BackLabel>>, 2)),
           "Markdown", <<>>)

\* other_platforms_handler, lines 292-311
coming_soon_message(text) ==
    Answer(<<text, "\n", "\n", "COMING_SOON_BODY">>,
           ReplyKeyboardMarkup(<< <<AmazonLabel>>, <<BackLabel>> >>), "Markdown", <<>>)

\* lines 168-171; the text is a literal
temp_error_message == Answer(<<"TEMP_ERROR_TEXT">>, NoMarkup, "Markdown", <<>>)

\* line 177
unknown_category_message == Answer(<<"UNKNOWN_CATEGORY_USE_START">>, NoMarkup, "none", <<>>)

\* lines 182-190
empty_message ==
    Answer(<<"NO_PRODUCTS_IN_CATEGORY">>, ReplyKeyboardMarkup(<< <<BackLabel>> >>),
           "Markdown", <<>>)

\* lines 194-198
loading_message(text) ==
    Answer(<<"LOADING_PRODUCTS_IN", text, "ELLIPSIS">>, ReplyKeyboardRemove, "Markdown", <<>>)

\* end_message with a seeded fault: the keyboard holds the show-more button only
end_message_no_back ==
    Answer(<<"ALL_PRODUCTS_SHOWN">>,
           ReplyKeyboardMarkup(<< <<ShowMoreLabel>> >>), "Markdown", <<>>)

\* lines 205-217
end_message ==
    Answer(<<"ALL_PRODUCTS_SHOWN">>,
           ReplyKeyboardMarkup(<< <<ShowMoreLabel, BackLabel>> >>), "Markdown", <<>>)

\* _build_product_keyboard, lines 281-288
_build_product_keyboard(detail_url) ==
    [type |-> "inline", rows |-> << <<"BUY_NOW">> >>, url |-> detail_url]

---------------------------------------------------------------------------
(* The catalog source, data/products.json, and load_products, lines 40-54 *)

\* the limit of the slice at line 83
Limit == 3

\* what the file holds: absent, not JSON, or a JSON value.  top is the type
\* of the top-level value; items are what iterating over it yields (the
\* elements of a list, the keys of an object).
Source(file, top, items) == [file |-> file, top |-> top, items |-> items]

load_products(src) ==
    IF src.file = "absent"
    THEN [exc |-> "FileNotFoundError", msg |-> "data/products.json missing",
          log |-> << <<"products.json not found in data/ folder">> >>]
    ELSE IF src.file = "invalid_json"
    THEN [exc |-> "ValueError", msg |-> "Invalid JSON format in products.json",
          log |-> << <<"Invalid JSON in products.json">> >>]
    ELSE IF src.top = "number"
    THEN \* len() of an int at line 50: not a JSONDecodeError
         [exc |-> "TypeError", msg |-> "object of type 'int' has no len()", log |-> <<>>]
    ELSE [exc |-> "none", msg |-> "", log |-> << <<"Loaded products from JSON">> >>]

\* the comprehension of line 83 without the slice
RECURSIVE Matching(_, _)
Matching(items, category) ==
    IF items = <<>> THEN <<>>
    ELSE IF Head(items).category = Str(<<category>>)
         THEN <<Head(items)>> \o Matching(Tail(items), category)
         ELSE Matching(Tail(items), category)

\* get_products_by_category with a seeded fault: the category test is dropped
get_products_by_category_unfiltered(products, category) ==
    IF \E i \in 1..Len(products) : products[i].kind # "object"
    THEN [exc |-> "AttributeError", list |-> <<>>]
    ELSE [exc |-> "none",
          list |-> SubSeq(products, 1, IF Len(products) < Limit THEN Len(products) ELSE Limit)]

\* lines 81-83: p.get raises on the first element that is not a dict
get_products_by_category(products, category) ==
    IF \E i \in 1..Len(products) : products[i].kind # "object"
    THEN [exc |-> "AttributeError", list |-> <<>>]
    ELSE LET m == Matching(products, category)
         IN  [exc |-> "none",
              list |-> SubSeq(m, 1, IF Len(m) < Limit THEN Len(m) ELSE Limit)]

\* line 175: next((k for k, v in CATEGORY_MAP.items() if v == text), None)
selected_category(text) ==
    IF \E i \in 1..Len(CATEGORY_MAP) : CATEGORY_MAP[i].label = text
    THEN CATEGORY_MAP[CHOOSE i \in 1..Len(CATEGORY_MAP) :
                         /\ CATEGORY_MAP[i].label = text
                         /\ \A j \in 1..(i - 1) : CATEGORY_MAP[j].label # text].key
    ELSE "None"

---------------------------------------------------------------------------
(* category_handler up to its first await, lines 164-198.                  *)
(* act is "answer" (msg is sent; next is where the handler goes when the   *)
(* send returns) or "raise" (exc escapes the handler).                     *)

Raise(exc, log) ==
    [act |-> "raise", exc |-> exc, msg |-> temp_error_message, next |-> "raised",
     cat_products |-> <<>>, log |-> log]

AnswerThen(msg, next, cat_products, log) ==
    [act |-> "answer", exc |-> "none", msg |-> msg, next |-> next,
     cat_products |-> cat_products, log |-> log]

\* load_error_answer with a seeded fault: the exception's text is shown to the user
load_error_answer_verbatim(ld) ==
    AnswerThen(Answer(<<"TEMP_ERROR_TEXT", ld.msg>>, NoMarkup, "Markdown", <<>>), "done", <<>>,
               Append(ld.log, <<"Data load error", ld.msg>>))

\* lines 166-172, the except clause: the cause goes to the log, the text is fixed
load_error_answer(ld) ==
    AnswerThen(temp_error_message, "done", <<>>,
               Append(ld.log, <<"Data load error", ld.msg>>))

category_entry(src, text) ==
    LET ld == load_products(src)
        sel == selected_category(text)
        found == get_products_by_category(src.items, sel)
    IN  IF ld.exc \in {"FileNotFoundError", "ValueError"}
        THEN load_error_answer(ld)
        ELSE IF ld.exc # "none" THEN Raise(ld.exc, ld.log)
        ELSE IF sel = "None"
        THEN AnswerThen(unknown_category_message, "done", <<>>, ld.log)
        ELSE IF found.exc # "none" THEN Raise(found.exc, ld.log)
        ELSE IF found.list = <<>>
        THEN AnswerThen(empty_message, "done", <<>>, ld.log)
        ELSE AnswerThen(loading_message(text), "send_product", found.list, ld.log)

---------------------------------------------------------------------------
(* send_product_message, lines 224-254 *)

\* Path(s): the empty string is the current directory
PathOf(s) == IF s = <<>> THEN <<".">> ELSE s

\* Path.exists(), given the regular files that exist
Exists(path, files) == path = <<".">> \/ path \in files

PlaceholderPath == <<"assets/placeholder.jpg">>

\* lines 85-91; <<>> is None
get_placeholder_image(files) == IF PlaceholderPath \in files THEN PlaceholderPath ELSE <<>>

\* lines 226-231, for a record whose image is a string or is missing
PhotoOf(product, files) ==
    LET image_path == PathOf(product.image.s)
    IN  IF Exists(image_path, files) THEN image_path ELSE get_placeholder_image(files)

\* lines 226-249: what the rich attempt raises before it sends, or sends
rich_attempt(product, idx, files) ==
    LET built == _build_caption(product, idx)
        exc == IF product.image.t = "num" THEN "TypeError"            \* Path(int)
               ELSE IF built.exc # "none" THEN built.exc
               ELSE IF product.detail_url.t = "missing" THEN "KeyError"
               ELSE IF product.detail_url.t # "str" THEN "ValidationError"
               ELSE "none"
    IN  [exc |-> exc,
         msg |-> IF exc # "none" THEN temp_error_message
                 ELSE Answer(built.caption, _build_product_keyboard(product.detail_url.s),
                             "MarkdownV2", PhotoOf(product, files))]

\* lines 250-254: the except block
fallback_attempt(product, idx) ==
    IF product.id.t = "missing"
    THEN [exc |-> "KeyError", msg |-> temp_error_message, log |-> <<>>]   \* line 251
    ELSE [exc |-> "none",
          msg |-> Answer(plain_caption(_build_caption(product, idx).caption),
                         _build_product_keyboard(product.detail_url.s), "none", <<>>),
          log |-> << <<"Failed to send product">> \o Format(product.id) >>]

\* the transport: any send may fail; uploading a directory as a photo always fails
Outcomes(msg) == IF msg.photo = <<".">> THEN {FALSE} ELSE BOOLEAN

---------------------------------------------------------------------------
(* The router: handlers in registration order, first matching filter wins *)

Handlers ==
    << "start_handler", "amazon_handler", "back_to_platforms_handler",
       "category_handler", "show_more_handler", "other_platforms_handler" >>

\* Filter with a seeded fault: the platform handler's filter takes every
\* label of PLATFORM_MAP
Filter_overlapping(h, text) ==
    CASE h = "start_handler" -> text = CmdStart
      [] h = "amazon_handler" -> text \in Range(Values(PLATFORM_MAP))
      [] h = "back_to_platforms_handler" -> text = BackLabel
      [] h = "category_handler" -> text \in Range(Values(CATEGORY_MAP))
      [] h = "show_more_handler" -> text = ShowMoreLabel
      [] h = "other_platforms_handler" -> text \in Range(OtherPlatformLabels)

Filter(h, text) ==
    CASE h = "start_handler" -> text = CmdStart                          \* line 101
      [] h = "amazon_handler" -> text = AmazonLabel                      \* line 128
      [] h = "back_to_platforms_handler" -> text = BackLabel             \* line 156
      [] h = "category_handler" -> text \in Range(Values(CATEGORY_MAP))  \* line 161
      [] h = "show_more_handler" -> text = ShowMoreLabel                 \* line 219
      [] h = "other_platforms_handler" -> text \in Range(OtherPlatformLabels)  \* line 291

Route(text) ==
    IF \E i \in 1..Len(Handlers) : Filter(Handlers[i], text)
    THEN Handlers[CHOOSE i \in 1..Len(Handlers) :
                     /\ Filter(Handlers[i], text)
                     /\ \A j \in 1..(i - 1) : ~Filter(Handlers[j], text)]
    ELSE "none"

\* line 159: await start_handler(message)
back_to_platforms_message(hour) == start_message(hour)

\* show_more_message with a seeded fault: a category menu of its own, without
\* the back button
show_more_message_no_back ==
    Answer(<<"AMAZON_WELCOME">>, ReplyKeyboardMarkup(Adjust(Values(CATEGORY_MAP), 2)),
           "Markdown", <<>>)

\* show_more_message with a seeded fault: the handler awaits start_handler instead
show_more_message_root == start_message(12)

\* line 222: await amazon_handler(message)
show_more_message == amazon_message

---------------------------------------------------------------------------
(* Inputs: the catalog sources, the files on disk and the inbound texts *)

Record(id, title, category, new_price, old_price, detail_url, image) ==
    [kind |-> "object", id |-> id, title |-> title, category |-> category,
     new_price |-> new_price, old_price |-> old_price, detail_url |-> detail_url,
     image |-> image]

\* an element that is not a dict (a number in the list, a key of an object)
NotADict ==
    [kind |-> "other", id |-> Missing, title |-> Missing, category |-> Missing,
     new_price |-> Missing, old_price |-> Missing, detail_url |-> Missing,
     image |-> Missing]

\* records that follow the catalog format the code reads
WellFormed(k, id) ==
    CASE k = 1 -> Record(Num(id), Str(<<"a", "-", "b">>), Str(<<"groceries">>), Num(80),
                         Num(100), Str(<<"URL_A">>), Str(<<"IMG_A">>))
      [] k = 2 -> Record(Num(id), Str(<<"c">>), Str(<<"groceries">>), Num(50),
                         Missing, Str(<<"URL_B">>), Missing)
      [] k = 3 -> Record(Num(id), Str(<<"d", ".">>), Str(<<"beauty">>), Num(5),
                         Num(0), Str(<<"URL_C">>), Str(<<"IMG_GONE">>))

Templates == {1, 2, 3}

\* every list of at most MaxCatalogLen well-formed records, ids by position
TemplateSeqs == UNION {[1..n -> Templates] : n \in 0..MaxCatalogLen}

ListSources ==
    { Source("json", "list", [i \in 1..Len(ts) |-> WellFormed(ts[i], i)]) : ts \in TemplateSeqs }

\* records that break the format in one field
Bad(k, id) ==
    LET r == WellFormed(1, id)
    IN  CASE k = 1 -> [r EXCEPT !.title = Missing]
          [] k = 2 -> [r EXCEPT !.new_price = Missing]
          [] k = 3 -> [r EXCEPT !.detail_url = Missing]
          [] k = 4 -> [r EXCEPT !.title = Num(7)]
          [] k = 5 -> [r EXCEPT !.old_price = Str(<<"1", "0", "0">>)]
          [] k = 6 -> [r EXCEPT !.new_price = Str(<<"8", "0">>)]
          [] k = 7 -> [r EXCEPT !.new_price = Str(<<"8", ".", "5">>), !.old_price = Missing]
          [] k = 8 -> [r EXCEPT !.image = Num(1)]
          [] k = 9 -> [r EXCEPT !.id = Missing]
          [] k = 10 -> [r EXCEPT !.detail_url = Num(1)]
          [] k = 11 -> [r EXCEPT !.category = Missing]

BadKinds == 1..11

\* valid JSON that is not a list of well-formed records
MalformedSources ==
    { Source("json", "number", <<>>),
      Source("json", "object", <<>>),
      Source("json", "object", <<NotADict>>),
      Source("json", "list", <<WellFormed(1, 1), NotADict>>) }
    \cup { Source("json", "list", <<Bad(k, 1)>>) : k \in BadKinds }
    \cup { Source("json", "list", <<WellFormed(1, 1), Bad(k, 2)>>) : k \in BadKinds }

Sources ==
    { Source("absent", "none", <<>>), Source("invalid_json", "none", <<>>) }
    \cup ListSources \cup MalformedSources

\* the regular files on disk: IMG_A always exists, IMG_GONE never does
FileStates == { {<<"IMG_A">>}, {<<"IMG_A">>, PlaceholderPath} }

\* inbound texts: every label of the bot and two texts no filter matches
Texts ==
    {CmdStart, AmazonLabel, BackLabel, ShowMoreLabel}
    \cup Range(Values(CATEGORY_MAP)) \cup Range(Values(PLATFORM_MAP))
    \cup {"hello", "L:stale_button"}

---------------------------------------------------------------------------
(* State *)

VARIABLES
    source,       \* data/products.json
    files,        \* the regular files that exist (images)
    task,         \* per event task: the handler's position and locals
    last_listed   \* the category whose product list the previous event showed, or "none"

vars == <<source, files, task, last_listed>>

\* out: the answer calls made, in order, each with its outcome; idx > 0 marks
\* the card of cat_products[idx], via says which attempt it was
IdleTask ==
    [pc |-> "idle", text |-> "", handler |-> "none", cat_products |-> <<>>,
     idx |-> 0, out |-> <<>>, log |-> <<>>, exc |-> "none"]

Finished == {"done", "raised", "unhandled"}

Call(msg, ok, idx, via) == [msg |-> msg, ok |-> ok, idx |-> idx, via |-> via]

\* an awaited answer call of a handler that returns after it
AnswerAndReturn(tk, msg, ok) ==
    [tk EXCEPT !.out = Append(@, Call(msg, ok, 0, "menu")),
               !.pc = IF ok THEN "done" ELSE "raised",
               !.exc = IF ok THEN "none" ELSE "TelegramAPIError"]

Raised(tk, exc) == [tk EXCEPT !.pc = "raised", !.exc = exc]

\* whether the event of tk showed a product list to its end: every card was
\* delivered (rich or plain) and so was the message with the show-more keyboard
Listed(tk) == tk.handler = "category_handler" /\ tk.pc = "done" /\ tk.cat_products # <<>>

Init ==
    /\ source \in Sources
    /\ files \in FileStates
    /\ task = [t \in {1} |-> IdleTask]
    /\ last_listed = "none"

\* Dispatch with a seeded fault: the inbound text is kept in one variable that
\* every running handler reads
Dispatch_shared(t, text) ==
    /\ task[t].pc \in Finished \cup {"idle"}
    /\ task' = [u \in DOMAIN task |->
                  IF u = t
                  THEN [IdleTask EXCEPT !.text = text, !.handler = Route(text),
                                        !.pc = IF Route(text) = "none" THEN "unhandled"
                                               ELSE Route(text)]
                  ELSE IF task[u].pc = "idle" THEN task[u]
                  ELSE [task[u] EXCEPT !.text = text]]
    /\ last_listed' = IF Listed(task[t]) THEN selected_category(task[t].text) ELSE "none"
    /\ UNCHANGED <<source, files>>

\* Dispatch with a seeded fault: the route of "show more" follows a stored
\* node, the list the previous event of the chat showed
Dispatch_sticky(t, text) ==
    /\ task[t].pc \in Finished \cup {"idle"}
    /\ LET h == IF text = ShowMoreLabel /\ Listed(task[t]) THEN "category_handler"
                ELSE Route(text)
       IN  task' = [task EXCEPT ![t] =
                      [IdleTask EXCEPT !.text = text, !.handler = h,
                                       !.pc = IF h = "none" THEN "unhandled" ELSE h]]
    /\ last_listed' = IF Listed(task[t]) THEN selected_category(task[t].text) ELSE "none"
    /\ UNCHANGED <<source, files>>

\* the dispatcher takes the next update and routes it (lines 101-291)
Dispatch(t, text) ==
    /\ task[t].pc \in Finished \cup {"idle"}
    /\ task' = [task EXCEPT ![t] =
                  [IdleTask EXCEPT !.text = text, !.handler = Route(text),
                                   !.pc = IF Route(text) = "none" THEN "unhandled"
                                          ELSE Route(text)]]
    /\ last_listed' = IF Listed(task[t]) THEN selected_category(task[t].text) ELSE "none"
    /\ UNCHANGED <<source, files>>

\* lines 102-126
StartHandler(t) ==
    /\ task[t].pc = "start_handler"
    /\ \E hour \in 0..23, ok \in BOOLEAN :
         task' = [task EXCEPT ![t] = AnswerAndReturn(@, start_message(hour), ok)]
    /\ UNCHANGED <<source, files, last_listed>>

\* lines 129-154
AmazonHandler(t) ==
    /\ task[t].pc = "amazon_handler"
    /\ \E ok \in BOOLEAN :
         task' = [task EXCEPT ![t] = AnswerAndReturn(@, amazon_message, ok)]
    /\ UNCHANGED <<source, files, last_listed>>

\* lines 157-159
BackToPlatformsHandler(t) ==
    /\ task[t].pc = "back_to_platforms_handler"
    /\ \E hour \in 0..23, ok \in BOOLEAN :
         task' = [task EXCEPT ![t] = AnswerAndReturn(@, back_to_platforms_message(hour), ok)]
    /\ UNCHANGED <<source, files, last_listed>>

\* lines 220-222
ShowMoreHandler(t) ==
    /\ task[t].pc = "show_more_handler"
    /\ \E ok \in BOOLEAN :
         task' = [task EXCEPT ![t] = AnswerAndReturn(@, show_more_message, ok)]
    /\ UNCHANGED <<source, files, last_listed>>

\* lines 292-311
OtherPlatformsHandler(t) ==
    /\ task[t].pc = "other_platforms_handler"
    /\ \E ok \in BOOLEAN :
         task' = [task EXCEPT ![t] = AnswerAndReturn(@, coming_soon_message(task[t].text), ok)]
    /\ UNCHANGED <<source, files, last_listed>>

\* lines 162-198: load, filter and the first answer call
CategoryHandler(t) ==
    /\ task[t].pc = "category_handler"
    /\ LET e == category_entry(source, task[t].text)
       IN  IF e.act = "raise"
           THEN task' = [task EXCEPT ![t] = [Raised(@, e.exc) EXCEPT !.log = e.log]]
           ELSE \E ok \in BOOLEAN :
                  task' = [task EXCEPT ![t] =
                             [@ EXCEPT !.out = Append(@, Call(e.msg, ok, 0, "menu")),
                                       !.log = e.log,
                                       !.cat_products = e.cat_products,
                                       !.idx = 1,
                                       !.pc = IF ok THEN e.next ELSE "raised",
                                       !.exc = IF ok THEN "none" ELSE "TelegramAPIError"]]
    /\ UNCHANGED <<source, files, last_listed>>

\* lines 201-202 and 226-249: the next product's rich attempt
SendProduct(t) ==
    /\ task[t].pc = "send_product"
    /\ task[t].idx <= Len(task[t].cat_products)
    /\ LET tk == task[t]
           r == rich_attempt(tk.cat_products[tk.idx], tk.idx, files)
       IN  IF r.exc # "none"
           THEN task' = [task EXCEPT ![t] = Raised(@, r.exc)]
           ELSE \E ok \in Outcomes(r.msg) :
                  task' = [task EXCEPT ![t] =
                             [@ EXCEPT !.out = Append(@, Call(r.msg, ok, tk.idx, "rich")),
                                       !.idx = IF ok THEN @ + 1 ELSE @,
                                       !.pc = IF ok THEN "send_product" ELSE "fallback"]]
    /\ UNCHANGED <<source, files, last_listed>>

\* lines 250-254: the except block of the rich attempt
Fallback(t) ==
    /\ task[t].pc = "fallback"
    /\ LET tk == task[t]
           f == fallback_attempt(tk.cat_products[tk.idx], tk.idx)
       IN  IF f.exc # "none"
           THEN task' = [task EXCEPT ![t] = Raised(@, f.exc)]
           ELSE \E ok \in BOOLEAN :
                  task' = [task EXCEPT ![t] =
                             [@ EXCEPT !.out = Append(@, Call(f.msg, ok, tk.idx, "plain")),
                                       !.log = @ \o f.log,
                                       !.idx = IF ok THEN @ + 1 ELSE @,
                                       !.pc = IF ok THEN "send_product" ELSE "raised",
                                       !.exc = IF ok THEN "none" ELSE "TelegramAPIError"]]
    /\ UNCHANGED <<source, files, last_listed>>

\* lines 204-217: the end-of-list message
EndOfList(t) ==
    /\ task[t].pc = "send_product"
    /\ task[t].idx > Len(task[t].cat_products)
    /\ \E ok \in BOOLEAN :
         task' = [task EXCEPT ![t] =
                    [AnswerAndReturn(@, end_message, ok) EXCEPT !.idx = task[t].idx]]
    /\ UNCHANGED <<source, files, last_listed>>

Next ==
    \/ \E t \in DOMAIN task, text \in Texts : Dispatch(t, text)
    \/ \E t \in DOMAIN task : StartHandler(t)
    \/ \E t \in DOMAIN task : AmazonHandler(t)
    \/ \E t \in DOMAIN task : BackToPlatformsHandler(t)
    \/ \E t \in DOMAIN task : CategoryHandler(t)
    \/ \E t \in DOMAIN task : ShowMoreHandler(t)
    \/ \E t \in DOMAIN task : OtherPlatformsHandler(t)
    \/ \E t \in DOMAIN task : SendProduct(t)
    \/ \E t \in DOMAIN task : Fallback(t)
    \/ \E t \in DOMAIN task : EndOfList(t)

Spec == Init /\ [][Next]_vars

---------------------------------------------------------------------------
(* The caption renderer on its own inputs: catalogs of one record whose    *)
(* title and prices range over the cases of _build_caption and             *)
(* escape_markdown_v2, rendered by the category handler.                   *)

\* a few reserved characters, an ordinary character and the escape marker
TitleAlphabet == {"_", "*", "~", ".", "a", "\\"}

\* an ordinary character, then every reserved character, then an ordinary one
AllReservedTitle == <<"a">> \o reserved_chars \o <<"a">>

Titles ==
    UNION {[1..n -> TitleAlphabet] : n \in 0..MaxTitleLen}
    \cup {<<reserved_chars[i]>> : i \in 1..Len(reserved_chars)}
    \cup {AllReservedTitle}

NewPrices == {5, 80, 120}

OldPrices == {Missing, Num(0), Num(100), Num(-3)}

CaptionRecord(title, new_price, old_price) ==
    Record(Num(1), Str(title), Str(<<"groceries">>), Num(new_price), old_price,
           Str(<<"URL_A">>), Str(<<"IMG_A">>))

CaptionRecords ==
    {CaptionRecord(title, 80, old_price) : title \in Titles, old_price \in {Missing, Num(100)}}
    \cup {CaptionRecord(<<"a">>, new_price, old_price) :
             new_price \in NewPrices, old_price \in OldPrices}

CaptionSources == {Source("json", "list", <<r>>) : r \in CaptionRecords}

CaptionInit ==
    /\ source \in CaptionSources
    /\ files = {<<"IMG_A">>}
    /\ task = [t \in {1} |-> IdleTask]
    /\ last_listed = "none"

CaptionSpec == CaptionInit /\ [][Next]_vars

---------------------------------------------------------------------------
(* Several events at once: the dispatcher runs one task per update, and    *)
(* the tasks interleave at every await.                                    *)

\* two groceries records and one beauty record; the second has no image
ConcCatalog == <<WellFormed(1, 1), WellFormed(2, 2), WellFormed(3, 3)>>

ConcSources == {Source("absent", "none", <<>>), Source("json", "list", ConcCatalog)}

ConcInit ==
    /\ source \in ConcSources
    /\ files = {<<"IMG_A">>, PlaceholderPath}
    /\ task = [t \in 1..NumTasks |-> IdleTask]
    /\ last_listed = "none"

\* the updates that arrive while others are being handled: one label for
\* each handler
ConcTexts == {CmdStart, AmazonLabel, BackLabel, ShowMoreLabel, "L:groceries", "L:express"}

\* each task handles one update: the dispatcher starts it and never reuses it
DispatchOnce(t, text) ==
    /\ task[t].pc = "idle"
    /\ Dispatch(t, text)

ConcNext ==
    \/ \E t \in DOMAIN task, text \in ConcTexts : DispatchOnce(t, text)
    \/ \E t \in DOMAIN task : StartHandler(t)
    \/ \E t \in DOMAIN task : AmazonHandler(t)
    \/ \E t \in DOMAIN task : BackToPlatformsHandler(t)
    \/ \E t \in DOMAIN task : CategoryHandler(t)
    \/ \E t \in DOMAIN task : ShowMoreHandler(t)
    \/ \E t \in DOMAIN task : OtherPlatformsHandler(t)
    \/ \E t \in DOMAIN task : SendProduct(t)
    \/ \E t \in DOMAIN task : Fallback(t)
    \/ \E t \in DOMAIN task : EndOfList(t)

ConcSpec == ConcInit /\ [][ConcNext]_vars

---------------------------------------------------------------------------
(* Two chats, each sending any sequence of updates: what one handling of a *)
(* label does can be compared with another handling of it, whatever was    *)
(* handled before or in between.                                           *)

HistInit ==
    /\ source \in ConcSources
    /\ files = {<<"IMG_A">>, PlaceholderPath}
    /\ task = [t \in {1, 2} |-> IdleTask]
    /\ last_listed = "none"

HistSpec == HistInit /\ [][Next]_vars

---------------------------------------------------------------------------
(* One event handled alone, as a function of the text, the catalog, the    *)
(* files and the outcomes of its sends: oks[k] is the outcome of the k-th  *)
(* answer call.  The result is the calls made and where the handler is     *)
(* when the outcomes run out.                                              *)

Run(out, pc) == [out |-> out, pc |-> pc]

\* a handler whose body is one awaited answer call
SoloAnswer(h, msg, oks) ==
    IF oks = <<>> THEN Run(<<>>, h)
    ELSE Run(<<Call(msg, Head(oks), 0, "menu")>>, IF Head(oks) THEN "done" ELSE "raised")

\* lines 201-217: the loop over cat_products from idx on, then the end
\* message; done holds the calls made before
RECURSIVE SoloCards(_, _, _, _, _)
SoloCards(products, idx, fs, oks, done) ==
    IF idx > Len(products)
    THEN IF oks = <<>> THEN Run(done, "send_product")
         ELSE Run(Append(done, Call(end_message, Head(oks), 0, "menu")),
                  IF Head(oks) THEN "done" ELSE "raised")
    ELSE LET r == rich_attempt(products[idx], idx, fs)
             f == fallback_attempt(products[idx], idx)
             rich(ok) == Call(r.msg, ok, idx, "rich")
             plain(ok) == Call(f.msg, ok, idx, "plain")
         IN  IF r.exc # "none" THEN Run(done, "raised")
             ELSE IF oks = <<>> THEN Run(done, "send_product")
             ELSE IF Head(oks)
             THEN SoloCards(products, idx + 1, fs, Tail(oks), Append(done, rich(TRUE)))
             ELSE IF f.exc # "none" THEN Run(Append(done, rich(FALSE)), "raised")
             ELSE IF Len(oks) = 1 THEN Run(Append(done, rich(FALSE)), "fallback")
             ELSE IF oks[2]
             THEN SoloCards(products, idx + 1, fs, Tail(Tail(oks)),
                            done \o <<rich(FALSE), plain(TRUE)>>)
             ELSE Run(done \o <<rich(FALSE), plain(FALSE)>>, "raised")

\* lines 162-217
SoloCategory(src, fs, text, oks) ==
    LET e == category_entry(src, text) IN
    IF e.act = "raise" THEN Run(<<>>, "raised")
    ELSE IF oks = <<>> THEN Run(<<>>, "category_handler")
    ELSE IF ~Head(oks) THEN Run(<<Call(e.msg, FALSE, 0, "menu")>>, "raised")
    ELSE IF e.next = "done" THEN Run(<<Call(e.msg, TRUE, 0, "menu")>>, "done")
    ELSE SoloCards(e.cat_products, 1, fs, Tail(oks), <<Call(e.msg, TRUE, 0, "menu")>>)

\* the handler the router picks, run to its end
SoloRun(src, fs, text, oks, hour) ==
    LET h == Route(text) IN
    CASE h = "none" -> Run(<<>>, "unhandled")
      [] h = "start_handler" -> SoloAnswer(h, start_message(hour), oks)
      [] h = "amazon_handler" -> SoloAnswer(h, amazon_message, oks)
      [] h = "back_to_platforms_handler" -> SoloAnswer(h, back_to_platforms_message(hour), oks)
      [] h = "show_more_handler" -> SoloAnswer(h, show_more_message, oks)
      [] h = "other_platforms_handler" -> SoloAnswer(h, coming_soon_message(text), oks)
      [] h = "category_handler" -> SoloCategory(src, fs, text, oks)

---------------------------------------------------------------------------
(* Properties *)

Tasks == DOMAIN task

\* the event of tk is over: its handler returned or raised, or no handler matched
Over(tk) == tk.pc \in Finished

IsCategoryEvent(tk) == tk.handler = "category_handler"

\* the source is a JSON list of well-formed records
WellFormedSource == source \in ListSources

\* the loading message of lines 194-198 was delivered
LoadingDelivered(tk) ==
    /\ Len(tk.out) >= 1
    /\ tk.out[1].msg.markup.type = "remove"
    /\ tk.out[1].ok

\* every photo the event tried to upload was a regular file
OnlyFileUploads(tk) == \A i \in 1..Len(tk.out) : tk.out[i].msg.photo # <<".">>

\* the positions of the calls made for the card of cat_products[k]
CallsFor(tk, k) == {i \in 1..Len(tk.out) : tk.out[i].idx = k}

\* the positions in the source of the records of a category
MatchingPositions(category) ==
    {j \in 1..Len(source.items) : source.items[j].category = Str(<<category>>)}

\* the k-th record of a category, counted in source order
KthMatch(category, k) ==
    source.items[CHOOSE j \in MatchingPositions(category) :
                    Cardinality({m \in MatchingPositions(category) : m <= j}) = k]

Min(a, b) == IF a < b THEN a ELSE b

\* C1: when a rich card send fails, exactly one plain-text fallback is
\* attempted for that product; when the fallback fails too, only that product
\* is skipped: every later product is still attempted and the event finishes
\* with the end-of-list message.  Stated for well-formed catalogs whose cards
\* carry a regular file or no photo.
C1_SendFailureIsLocal ==
    \A t \in Tasks :
        LET tk == task[t] IN
        (WellFormedSource /\ IsCategoryEvent(tk) /\ Over(tk) /\ OnlyFileUploads(tk)) =>
            \A i \in 1..Len(tk.out) :
                (tk.out[i].via = "rich" /\ ~tk.out[i].ok) =>
                    /\ Cardinality({j \in CallsFor(tk, tk.out[i].idx) :
                                       tk.out[j].via = "plain"}) = 1
                    /\ \A k \in (tk.out[i].idx + 1)..Len(tk.cat_products) :
                           CallsFor(tk, k) # {}
                    /\ tk.out[Len(tk.out)].msg = end_message

\* C2: every inbound text that matches no routing entry gets a guidance
\* message that directs the user to the start command.
C2_UnmatchedTextGetsGuidance ==
    \A t \in Tasks :
        LET tk == task[t] IN
        ( /\ Over(tk)
          /\ tk.text \notin {CmdStart, BackLabel, ShowMoreLabel}
          /\ tk.text \notin Range(Values(PLATFORM_MAP))
          /\ tk.text \notin Range(Values(CATEGORY_MAP)) ) =>
            \E i \in 1..Len(tk.out) : tk.out[i].msg.text = <<"UNKNOWN_CATEGORY_USE_START">>

\* the source is readable JSON but not a list of objects, or one of its
\* records lacks title, new_price or detail_url or has it with the wrong type
StructurallyMalformed ==
    /\ source.file = "json"
    /\ \/ source.top # "list"
       \/ \E j \in 1..Len(source.items) :
              \/ source.items[j].kind # "object"
              \/ source.items[j].title.t # "str"
              \/ source.items[j].new_price.t # "num"
              \/ source.items[j].detail_url.t # "str"

\* C3: a category event on a readable but malformed catalog never raises:
\* its only output is the one generic temporary-error message.  Stated for
\* the label of the category the malformed records carry, and for events in
\* which the transport failed no send.
C3_MalformedCatalogNeverRaises ==
    \A t \in Tasks :
        LET tk == task[t] IN
        ( /\ StructurallyMalformed /\ IsCategoryEvent(tk) /\ Over(tk)
          /\ tk.text = "L:groceries" /\ tk.exc # "TelegramAPIError" ) =>
            /\ tk.exc = "none"
            /\ Len(tk.out) = 1
            /\ tk.out[1].msg.text = <<"TEMP_ERROR_TEXT">>

\* C4: the plain-text fallback caption never holds an escape marker (a
\* backslash), whatever the title and the prices.  Stated for well-formed
\* catalogs.
C4_FallbackCaptionHasNoEscapeMarker ==
    \A t \in Tasks :
        \A i \in 1..Len(task[t].out) :
            (WellFormedSource /\ task[t].out[i].via = "plain") =>
                "\\" \notin Range(task[t].out[i].msg.text)

\* C5: once the loading message that removes the reply keyboard is sent, the
\* event ends with the end-of-list message that attaches the show-more/back
\* keyboard, whatever the outcome of the product sends.  Stated for
\* well-formed catalogs and cards that carry a regular file or no photo.
C5_EventEndsInStableMenu ==
    \A t \in Tasks :
        LET tk == task[t] IN
        ( /\ WellFormedSource /\ IsCategoryEvent(tk) /\ Over(tk)
          /\ LoadingDelivered(tk) /\ OnlyFileUploads(tk) ) =>
            /\ tk.out[Len(tk.out)].msg.text = <<"ALL_PRODUCTS_SHOWN">>
            /\ tk.out[Len(tk.out)].msg.markup.rows = << <<ShowMoreLabel, BackLabel>> >>

\* C6: with the catalog file absent, a category event produces exactly the
\* generic temporary-error message and nothing else; its text does not hold
\* the cause, which is in the log.
C6_AbsentSourceGivesOnlyTempError ==
    \A t \in Tasks :
        LET tk == task[t]
            cause == "data/products.json missing"
        IN  (source.file = "absent" /\ IsCategoryEvent(tk)) =>
                /\ \A i \in 1..Len(tk.out) :
                       /\ tk.out[i].msg.text = <<"TEMP_ERROR_TEXT">>
                       /\ tk.out[i].msg.markup.type = "none"
                       /\ tk.out[i].msg.photo = <<>>
                       /\ cause \notin Range(tk.out[i].msg.text)
                /\ Over(tk) =>
                       /\ Len(tk.out) = 1
                       /\ tk.cat_products = <<>>
                       /\ \E k \in 1..Len(tk.log) : cause \in Range(tk.log[k])

\* C6 witness: a category event on an absent catalog has delivered its message
C6_Witness ==
    \E t \in Tasks :
        /\ source.file = "absent" /\ IsCategoryEvent(task[t]) /\ task[t].pc = "done"
        /\ Len(task[t].out) = 1 /\ task[t].out[1].ok

\* C7: for a known category label and a catalog with n >= 1 records of that
\* category, the event renders min(3, n) product cards: the first matching
\* records in source order, none twice, each with a non-empty caption.
\* Stated for well-formed catalogs, a delivered loading message and cards that
\* carry a regular file or no photo.
C7_RendersFirstMatchingRecords ==
    \A t \in Tasks :
        LET tk == task[t]
            category == selected_category(tk.text)
            n == Cardinality(MatchingPositions(category))
        IN  ( /\ WellFormedSource /\ IsCategoryEvent(tk) /\ Over(tk)
              /\ n >= 1 /\ LoadingDelivered(tk) /\ OnlyFileUploads(tk) ) =>
                /\ \A k \in 1..Min(3, n) :
                       \E i \in CallsFor(tk, k) :
                           /\ tk.out[i].via = "rich"
                           /\ tk.out[i].msg.text # <<>>
                           /\ tk.out[i].msg.markup.url = KthMatch(category, k).detail_url.s
                /\ \A i \in 1..Len(tk.out) : tk.out[i].idx <= Min(3, n)
                /\ \A k \in 1..Min(3, n) :
                       Cardinality({i \in CallsFor(tk, k) : tk.out[i].via = "rich"}) <= 1

\* the list category_handler selects for rendering is the first min(3, n)
\* matching records in source order (the part of C7 that get_products_by_category
\* decides)
SelectionIsFirstMatching ==
    \A t \in Tasks :
        LET tk == task[t]
            category == selected_category(tk.text)
            n == Cardinality(MatchingPositions(category))
        IN  (WellFormedSource /\ IsCategoryEvent(tk) /\ tk.pc \in {"send_product", "fallback"}) =>
                /\ Len(tk.cat_products) = Min(3, n)
                /\ \A k \in 1..Min(3, n) : tk.cat_products[k] = KthMatch(category, k)

\* C8: the cards of one category event are attempted strictly in list order:
\* every product of the rendered list gets at least one delivery attempt, and
\* no send for product i comes after a send for product i+1.
\* Stated for well-formed catalogs, a delivered loading message and cards that
\* carry a regular file or no photo.
C8_EveryCardAttemptedInOrder ==
    \A t \in Tasks :
        LET tk == task[t] IN
        ( /\ WellFormedSource /\ IsCategoryEvent(tk) /\ Over(tk)
          /\ LoadingDelivered(tk) /\ OnlyFileUploads(tk) ) =>
            /\ \A k \in 1..Len(tk.cat_products) : CallsFor(tk, k) # {}
            /\ \A i, j \in 1..Len(tk.out) :
                   (i < j /\ tk.out[i].idx > 0 /\ tk.out[j].idx > 0) =>
                       tk.out[i].idx <= tk.out[j].idx

\* C9 as stated: pressing "show more" after a product list was shown renders
\* product cards again (the same first N of that category).
C9_ShowMoreRendersCards ==
    \A t \in Tasks :
        LET tk == task[t] IN
        ( /\ WellFormedSource /\ tk.handler = "show_more_handler" /\ tk.pc = "done"
          /\ last_listed # "none" ) =>
            \E i \in 1..Len(tk.out) : tk.out[i].idx > 0

\* C9 as amended: pressing "show more" sends exactly one message, the
\* category menu of the supported platform (the four category labels two per
\* row, then the back label), and no product card, whatever list the previous
\* event showed: no pagination state is read or kept.
C9_ShowMoreReentersCategoryMenu ==
    \A t \in Tasks :
        LET tk == task[t] IN
        (tk.handler = "show_more_handler" /\ Over(tk)) =>
            /\ Len(tk.out) = 1
            /\ tk.out[1].idx = 0
            /\ tk.out[1].msg.text = <<"AMAZON_WELCOME">>
            /\ tk.out[1].msg.photo = <<>>
            /\ tk.out[1].msg.markup.type = "reply"
            /\ tk.out[1].msg.markup.rows =
                   << <<"L:groceries", "L:beauty">>,
                      <<"L:mobiles", "L:home_appliances">>,
                      <<"L:back">> >>
            /\ tk.cat_products = <<>>

\* C9 witness: a "show more" event, delivered, right after an event that
\* showed a product list
C9_Witness ==
    \E t \in Tasks :
        /\ WellFormedSource
        /\ task[t].handler = "show_more_handler" /\ task[t].pc = "done"
        /\ last_listed # "none"
        /\ task[t].out[1].ok

\* C10: for a category whose filtered list is empty (the catalog was read),
\* the event sends exactly one message, the empty-category message with a
\* keyboard whose only button is back-to-platforms; never the temporary-error
\* message, a loading message or a product card.
C10_EmptyCategoryGivesOnlyEmptyMessage ==
    \A t \in Tasks :
        LET tk == task[t]
            category == selected_category(tk.text)
        IN  ( /\ IsCategoryEvent(tk) /\ tk.pc # "category_handler"
              /\ source.file = "json" /\ source.top \in {"list", "object"}
              /\ \A j \in 1..Len(source.items) : source.items[j].kind = "object"
              /\ MatchingPositions(category) = {} ) =>
                /\ Over(tk)
                /\ Len(tk.out) = 1
                /\ tk.out[1].idx = 0
                /\ tk.out[1].msg.text = <<"NO_PRODUCTS_IN_CATEGORY">>
                /\ tk.out[1].msg.photo = <<>>
                /\ tk.out[1].msg.markup.type = "reply"
                /\ tk.out[1].msg.markup.rows = << <<BackLabel>> >>

\* C10 witness: the empty-category message delivered for a catalog that holds
\* records of other categories only
C10_Witness ==
    \E t \in Tasks :
        /\ IsCategoryEvent(task[t]) /\ task[t].pc = "done"
        /\ WellFormedSource /\ source.items # <<>>
        /\ MatchingPositions(selected_category(task[t].text)) = {}
        /\ task[t].out[1].ok

---------------------------------------------------------------------------
(* Properties of the caption *)

\* the rich card calls of an event: positions in out
RichCalls(tk) == {i \in 1..Len(tk.out) : tk.out[i].via = "rich"}

Contains(s, pat) == \E i \in 1..Len(s) : IsPrefixAt(s, i, pat)

Count(s, tok) == Cardinality({i \in 1..Len(s) : s[i] = tok})

\* the old price a record states: 0 when it states none
StatedOldPrice(product) ==
    IF product.old_price.t = "missing" THEN 0 ELSE product.old_price.n

SavingsPrefix == <<"SAVINGS_ICON", " ", "*", "SAVED_WORD", ":", " ">>

SavingsSuffix == <<"*", " ", "PARTY">>

StrikeMarker == <<"~", "~">>

\* the value a caption shows on its savings line, escape markers dropped
ShownSavings(caption) ==
    LET p == CHOOSE i \in 1..Len(caption) : IsPrefixAt(caption, i, SavingsPrefix)
        seg == SubSeq(caption, p + Len(SavingsPrefix), Len(caption) - Len(SavingsSuffix))
    IN  SelectSeq(seg, LAMBDA x : x # "\\")

\* C11: in the caption of a rich card, the savings line and the
\* strike-through old-price segment are both present exactly when the
\* record's old_price is greater than 0 (a missing old_price counts as 0);
\* when present the savings value shown is old_price - new_price; otherwise
\* the caption has one price line only.
C11_SavingsIffOldPricePositive ==
    \A t \in Tasks :
        LET tk == task[t] IN
        \A i \in RichCalls(tk) :
            LET product == tk.cat_products[tk.out[i].idx]
                caption == tk.out[i].msg.text
                old_price == StatedOldPrice(product)
                new_price == product.new_price.n
            IN  /\ Contains(caption, SavingsPrefix) <=> old_price > 0
                /\ Contains(caption, StrikeMarker) <=> old_price > 0
                /\ old_price > 0 =>
                       /\ IsPrefixAt(caption, Len(caption) - 2, SavingsSuffix)
                       /\ ShownSavings(caption) =
                              IntStr(old_price - new_price) \o <<" ", "RIYAL">>
                /\ ~(old_price > 0) =>
                       /\ Count(caption, "PRICE_WORD") = 1
                       /\ Count(caption, "\n") = 2
                       /\ caption[Len(caption)] = "*"

\* C11 witness: a delivered rich card of a record whose new price is above
\* its old price, so that the savings shown are negative
C11_Witness ==
    \E t \in Tasks :
        \E i \in RichCalls(task[t]) :
            LET product == task[t].cat_products[task[t].out[i].idx]
            IN  /\ task[t].out[i].ok
                /\ StatedOldPrice(product) = 100
                /\ product.new_price.n = 120
                /\ Contains(task[t].out[i].msg.text, SavingsPrefix)

\* the reserved characters the escaping is specified for
ReservedSet ==
    {"_", "*", "[", "]", "(", ")", "~", "BACKTICK", ">", "#",
     "+", "-", "=", "|", "{", "}", ".", "!", "/"}

EscapeMarker == "\\"

\* a text with one escape marker put before each reserved character, in one pass
RECURSIVE EscapedOnce(_)
EscapedOnce(text) ==
    IF text = <<>> THEN <<>>
    ELSE (IF Head(text) \in ReservedSet THEN <<EscapeMarker, Head(text)>> ELSE <<Head(text)>>)
         \o EscapedOnce(Tail(text))

\* the length of what the caption holds before the title: the opening
\* marker, the product word, the index, the colon
TitleOffset(idx) == Len(<<"*", "PRODUCT_WORD", " ">> \o IntStr(idx) \o <<":", " ">>)

OutcomesOf(tk) == [i \in 1..Len(tk.out) |-> tk.out[i].ok]

\* hours of the day, one for each greeting and each boundary of get_greeting
Hours == {0, 4, 5, 11, 12, 17, 18, 23}

\* C13: events handled at the same time do not interfere: whatever the
\* interleaving of their steps, once the events are over each has sent the
\* messages, and ended the way, it does when handled alone with the same
\* send outcomes (at some hour of the day); and at every point the cards of
\* an event are in display order.
C13_ConcurrentEventsDoNotInterfere ==
    /\ (\A t \in Tasks : Over(task[t])) =>
           \A t \in Tasks :
               \E hour \in Hours :
                   SoloRun(source, files, task[t].text, OutcomesOf(task[t]), hour)
                       = Run(task[t].out, task[t].pc)
    /\ \A t \in Tasks :
           \A i, j \in 1..Len(task[t].out) :
               (i < j /\ task[t].out[i].idx > 0 /\ task[t].out[j].idx > 0) =>
                   task[t].out[i].idx <= task[t].out[j].idx

\* C13 witness: all events are over and two of them were category events
\* that went through their product lists, one of them with a plain-text card
C13_Witness ==
    /\ \A t \in Tasks : Over(task[t])
    /\ \E t, u \in Tasks :
           /\ t # u
           /\ Listed(task[t]) /\ Listed(task[u])
           /\ \E i \in 1..Len(task[t].out) : task[t].out[i].via = "rich" /\ task[t].out[i].ok
           /\ \E i \in 1..Len(task[u].out) : task[u].out[i].via = "plain" /\ task[u].out[i].idx = 1

Greetings == {get_greeting(hour) : hour \in Hours}

\* a message without its greeting, which follows the clock and not the label
WithoutGreeting(msg) ==
    IF msg.text # <<>> /\ Head(msg.text) \in Greetings
    THEN [msg EXCEPT !.text = Tail(@)]
    ELSE msg

\* C14: routing is idempotent and does not depend on history: two events
\* that bring the same label, whatever was handled before them or between
\* them, are given to the same handler, and their first messages (the menu,
\* the coming-soon notice, the loading notice) are equal up to the greeting,
\* as are the product lists they select from the same catalog.
C14_SameLabelSameEffect ==
    \A t, u \in Tasks :
        LET a == task[t]
            b == task[u]
        IN  (a.pc # "idle" /\ b.pc # "idle" /\ a.text = b.text) =>
                /\ a.handler = b.handler
                /\ (a.out # <<>> /\ b.out # <<>>) =>
                       /\ WithoutGreeting(a.out[1].msg) = WithoutGreeting(b.out[1].msg)
                       /\ a.cat_products = b.cat_products

\* C14 witness: the show-more label handled in two chats, in one of them
\* right after a product list was shown, in the other not
C14_Witness ==
    \E t, u \in Tasks :
        /\ t # u
        /\ task[t].text = ShowMoreLabel /\ task[u].text = ShowMoreLabel
        /\ task[t].pc = "done" /\ task[u].pc = "done"
        /\ last_listed # "none"

\* C15: the show-more label is an alias of the supported platform's label:
\* an event that brings one and an event that brings the other send the same
\* single message, with the same text and the same category keyboard with
\* the back button, and neither selects products.
C15_ShowMoreIsAliasOfPlatformLabel ==
    \A t, u \in Tasks :
        LET a == task[t]
            b == task[u]
        IN  (a.text = ShowMoreLabel /\ b.text = AmazonLabel /\ Over(a) /\ Over(b)) =>
                /\ Len(a.out) = 1 /\ Len(b.out) = 1
                /\ a.out[1].msg = b.out[1].msg
                /\ BackLabel \in Range(a.out[1].msg.markup.rows[Len(a.out[1].msg.markup.rows)])
                /\ a.cat_products = <<>> /\ b.cat_products = <<>>

\* C15 witness: a show-more event and a platform-label event, both delivered
C15_Witness ==
    \E t, u \in Tasks :
        /\ task[t].text = ShowMoreLabel /\ task[u].text = AmazonLabel
        /\ task[t].pc = "done" /\ task[u].pc = "done"
        /\ task[t].handler = "show_more_handler" /\ task[u].handler = "amazon_handler"

\* the root menu: a greeting and the welcome text, with a reply keyboard that
\* holds the platform labels of PLATFORM_MAP, one per row, in map order
IsRootMenu(msg) ==
    /\ msg.text # <<>>
    /\ Head(msg.text) \in Greetings
    /\ Tail(msg.text) = <<"\n", "\n", "WELCOME_BODY">>
    /\ msg.photo = <<>>
    /\ msg.markup.type = "reply"
    /\ msg.markup.rows = [i \in 1..Len(PLATFORM_MAP) |-> <<PLATFORM_MAP[i].label>>]
    /\ msg.markup.rows = << <<"L:express">>, <<"L:trendyol">>, <<"L:amazon">> >>

\* C16: the start command sends one message, the root menu, whose keyboard
\* holds exactly the platform labels of PLATFORM_MAP, one per row in map
\* order; the back-to-platforms label sends the same root menu.
C16_StartAndBackGiveRootMenu ==
    /\ \A t \in Tasks :
           LET tk == task[t] IN
           (tk.text \in {CmdStart, BackLabel} /\ Over(tk)) =>
               /\ Len(tk.out) = 1
               /\ IsRootMenu(tk.out[1].msg)
               /\ tk.cat_products = <<>>
    /\ \A t, u \in Tasks :
           (task[t].text = CmdStart /\ task[u].text = BackLabel
               /\ Over(task[t]) /\ Over(task[u])) =>
               WithoutGreeting(task[t].out[1].msg) = WithoutGreeting(task[u].out[1].msg)

\* C16 witness: the start command in one chat and the back label in the
\* other, both delivered
C16_Witness ==
    \E t, u \in Tasks :
        /\ task[t].text = CmdStart /\ task[t].pc = "done"
        /\ task[u].text = BackLabel /\ task[u].pc = "done"

\* the platform labels of PLATFORM_MAP other than the supported platform's
UnsupportedPlatformLabels ==
    {PLATFORM_MAP[i].label : i \in {j \in 1..Len(PLATFORM_MAP) : PLATFORM_MAP[j].key # "amazon"}}

\* C17: for every platform label other than the supported one, the event
\* sends one message, the coming-soon notice that names exactly that label,
\* with a keyboard of the supported platform and back-to-platforms; it reads
\* no catalog (whatever state the catalog is in) and sends no product card.
C17_OtherPlatformGivesComingSoon ==
    \A t \in Tasks :
        LET tk == task[t] IN
        (tk.text \in UnsupportedPlatformLabels /\ Over(tk)) =>
            /\ tk.handler = "other_platforms_handler"
            /\ Len(tk.out) = 1
            /\ tk.out[1].msg.text = <<tk.text, "\n", "\n", "COMING_SOON_BODY">>
            /\ tk.out[1].msg.markup.type = "reply"
            /\ tk.out[1].msg.markup.rows = << <<AmazonLabel>>, <<BackLabel>> >>
            /\ tk.out[1].msg.photo = <<>>
            /\ tk.out[1].idx = 0
            /\ tk.cat_products = <<>>
            /\ tk.log = <<>>
            /\ tk.exc \in {"none", "TelegramAPIError"}

\* C17 witness: the coming-soon notice delivered for the second unsupported
\* platform while the catalog file is absent
C17_Witness ==
    \E t \in Tasks :
        /\ task[t].text = "L:trendyol" /\ task[t].pc = "done"
        /\ task[t].out[1].ok
        /\ source.file = "absent"

\* the handlers whose filter takes a text
MatchingHandlers(text) == {h \in Range(Handlers) : Filter(h, text)}

\* the first handler of an order whose filter takes the text
RouteIn(order, text) ==
    IF \E i \in 1..Len(order) : Filter(order[i], text)
    THEN order[CHOOSE i \in 1..Len(order) :
                  /\ Filter(order[i], text)
                  /\ \A j \in 1..(i - 1) : ~Filter(order[j], text)]
    ELSE "none"

\* the priority order of the routing table: start, back, platform, category,
\* show more, other platforms
PriorityOrder ==
    << "start_handler", "back_to_platforms_handler", "amazon_handler",
       "category_handler", "show_more_handler", "other_platforms_handler" >>

Reversed(s) == [i \in 1..Len(s) |-> s[Len(s) + 1 - i]]

\* C18: the route filters are mutually exclusive: the text of every event
\* is taken by at most one filter, so the handler the router picked is also
\* the one the priority order of the routing table picks, and the one the
\* reverse registration order picks.
C18_FiltersAreMutuallyExclusive ==
    \A t \in Tasks :
        LET tk == task[t] IN
        tk.pc # "idle" =>
            /\ Cardinality(MatchingHandlers(tk.text)) <= 1
            /\ tk.handler = RouteIn(PriorityOrder, tk.text)
            /\ tk.handler = RouteIn(Reversed(Handlers), tk.text)
            /\ tk.handler # "none" => MatchingHandlers(tk.text) = {tk.handler}

\* C18 witness: an event routed to the handler registered last
C18_Witness ==
    \E t \in Tasks :
        /\ task[t].text = "L:express"
        /\ task[t].pc = "other_platforms_handler"

\* the buttons of a keyboard, row after row
RECURSIVE Buttons(_)
Buttons(rows) == IF rows = <<>> THEN <<>> ELSE Head(rows) \o Buttons(Tail(rows))

\* the keyboard of the root menu: the platform labels, one per row
RootRows == [i \in 1..Len(PLATFORM_MAP) |-> <<PLATFORM_MAP[i].label>>]

\* C19: in every reply keyboard the bot sends, the button labels are
\* pairwise different, every label is taken by the filter of some handler
\* (no dead button), and every keyboard other than the root platform
\* keyboard holds the back-to-platforms button.
C19_KeyboardsAreRoutable ==
    \A t \in Tasks :
        \A i \in 1..Len(task[t].out) :
            LET markup == task[t].out[i].msg.markup
                buttons == Buttons(markup.rows)
            IN  markup.type = "reply" =>
                    /\ buttons # <<>>
                    /\ \A j, k \in 1..Len(buttons) : j # k => buttons[j] # buttons[k]
                    /\ \A j \in 1..Len(buttons) : Route(buttons[j]) # "none"
                    /\ markup.rows # RootRows => BackLabel \in Range(buttons)

\* C19 witness: a category event delivered its end-of-list message, whose
\* keyboard holds the show-more and the back button
C19_Witness ==
    \E t \in Tasks :
        /\ Listed(task[t])
        /\ task[t].out[Len(task[t].out)].ok
        /\ task[t].out[Len(task[t].out)].msg.markup.type = "reply"
        /\ Len(Buttons(task[t].out[Len(task[t].out)].msg.markup.rows)) = 2

\* C20: a card carries the product's own image only when its image path
\* names an existing file; for a product with no image field, or with a path
\* that does not exist, the card carries the placeholder image when that
\* exists and no photo otherwise.  Stated for well-formed catalogs.
C20_MissingImageUsesPlaceholder ==
    \A t \in Tasks :
        \A i \in RichCalls(task[t]) :
            LET product == task[t].cat_products[task[t].out[i].idx]
                photo == task[t].out[i].msg.photo
                own == product.image.t = "str" /\ product.image.s \in files
            IN  WellFormedSource =>
                    /\ photo \notin {<<>>, PlaceholderPath} => own
                    /\ ~own => photo = (IF PlaceholderPath \in files
                                        THEN PlaceholderPath ELSE <<>>)

=============================================================================
